---- MODULE Spec2Model ----
(***************************************************************************)
(* Model of the pipebuf crate (uazu/pipebuf): the PipeBuf engine           *)
(* (src/src/buf.rs), its producer reference PBufWr (src/src/wr.rs) and its *)
(* consumer reference PBufRd (src/src/rd.rs).                              *)
(*                                                                         *)
(* A PipeBuf is a record [data, vcap, rd, wr, state, max_capacity].        *)
(* `data` is the backing Vec<T> (Rust index i is TLA+ index i+1) and       *)
(* `vcap` is data.capacity().  `rd` and `wr` are the 0-based offsets of    *)
(* the source.  Every method of the source is a pure operator from a       *)
(* PipeBuf record (and arguments) to an outcome record [pb, ret, n], and   *)
(* every action applies one method.                                        *)
(*                                                                         *)
(* The model is of the std/alloc build.  A `static` build behaves as a     *)
(* fixed engine whose max_capacity equals data.len().                      *)
(***************************************************************************)
EXTENDS Integers, Sequences, FiniteSets, TLC

(***************************************************************************)
(* Bounds of the model                                                     *)
(***************************************************************************)
\* largest max_capacity handed to PipeBuf::new
MaxCap == 2
\* number of elements a producer commits between two resets
MaxCommitted == 3
\* largest extra capacity Vec::reserve may hand out beyond the request
VecSlack == 1
\* number of answers a byte source or sink gives before it would block
MaxIo == 2

\* usize arithmetic of tripwire() wraps at 2^64.  TLC integers are 32 bit,
\* so the modulus is kept symbolic at 2^30; every length of the model (and,
\* for sized T, every length of a real Vec, which is at most isize::MAX) is
\* far below it.
UsizeModulus == 1073741824

\* the engines of a PipeBufPair; the single-engine specification uses "down"
Engines == {"down", "up"}

\* request sizes tried by the callers: 0 .. one more than the capacity
Sizes == 0..(MaxCap + 1)

VARIABLES
    pb,                 \* [Engines -> PipeBuf record]
    debug_assertions,   \* build flag: are debug_assert!s compiled in
    ncommitted,         \* [Engines -> Nat]: elements committed since creation/reset
    nconsumed,          \* [Engines -> Nat]: elements consumed since creation/reset
    first_eof,          \* [Engines -> {"none","close","abort"}]: EOF call that returned true
    panicked,           \* a panic was not caught: the program has ended
    trip                \* [Engines -> capture]: a tripwire captured by a caller

vars == <<pb, debug_assertions, ncommitted, nconsumed, first_eof, panicked, trip>>

(***************************************************************************)
(* PBufState and the tripwire                                              *)
(***************************************************************************)
PBufState == {"Open", "Push", "Closing", "Closed", "Aborting", "Aborted"}

\* the declaration order of the enum, used as its ordinals
as_usize_lexical(s) ==
    CASE s = "Open" -> 0
      [] s = "Push" -> 1
      [] s = "Closing" -> 2
      [] s = "Closed" -> 3
      [] s = "Aborting" -> 4
      [] s = "Aborted" -> 5

\* `state as usize`: the discriminants of enum PBufState
as_usize(s) ==
    CASE s = "Open" -> 0
      [] s = "Push" -> 1
      [] s = "Closing" -> 3
      [] s = "Closed" -> 2
      [] s = "Aborting" -> 5
      [] s = "Aborted" -> 4

wrapping_add(a, b) == (a + b) % UsizeModulus

Min(a, b) == IF a < b THEN a ELSE b
Max(a, b) == IF a > b THEN a ELSE b

Zeros(n) == [i \in 1..n |-> 0]

\* PBufRd::len
len(p) == p.wr - p.rd

\* PBufRd::data: the unread region
data(p) == SubSeq(p.data, p.rd + 1, p.wr)

\* PBufRd::is_empty
is_empty(p) == p.rd = p.wr

\* a tripwire of the unread length alone
tripwire_ignoring_state(p) == wrapping_add(p.wr - p.rd, 0)

\* PipeBuf::tripwire
tripwire(p) == wrapping_add(p.wr - p.rd, as_usize(p.state))

\* PipeBuf::is_tripped
is_tripped(p, t) == tripwire(p) # t

\* PipeBuf::is_push
is_push(p) == p.state = "Push"

\* PBufWr::is_eof / PBufRd::is_eof
is_eof(p) == p.state \notin {"Open", "Push"}

\* PBufRd::has_pending_eof
has_pending_eof(p) == p.state \in {"Closing", "Aborting"}

\* PBufRd::is_aborted
is_aborted(p) == p.state \in {"Aborting", "Aborted"}

\* an is_done() that does not look at the unread region
is_done_ignoring_data(p) == p.state \in {"Aborted", "Closed"}

\* PipeBuf::is_done
is_done(p) ==
    CASE p.state = "Aborted" -> TRUE
      [] p.state = "Closed" -> p.rd = p.wr
      [] OTHER -> FALSE

\* PipeBuf::capacity (std/alloc build)
capacity(p) == p.max_capacity

\* PBufWr::free
free(p) == capacity(p) - (p.wr - p.rd)

\* PBufWr::is_full
is_full(p) == free(p) = 0

(***************************************************************************)
(* Outcomes of a call: the engine afterwards, the value returned ("panic"  *)
(* when the call panicked) and the length returned (-1 when the call       *)
(* returns no length).                                                     *)
(***************************************************************************)
Out(p, r, n) == [pb |-> p, ret |-> r, n |-> n]
Panic(p) == [pb |-> p, ret |-> "panic", n |-> -1]

\* PipeBuf::new(min_capacity, max_capacity); vec![T::default(); n] has
\* capacity n + slack
new(min_capacity, max_capacity, slack) ==
    [data |-> Zeros(min_capacity), vcap |-> min_capacity + slack,
     rd |-> 0, wr |-> 0, state |-> "Open",
     max_capacity |-> Max(max_capacity, min_capacity + slack)]

\* a reset() that sets the offsets back and keeps the state
reset_keeping_state(p) == Out([p EXCEPT !.rd = 0, !.wr = 0], "unit", -1)

\* PipeBuf::reset
reset(p) == Out([p EXCEPT !.rd = 0, !.wr = 0, !.state = "Open"], "unit", -1)

\* PipeBuf::reset_and_zero
reset_and_zero(p) ==
    Out([p EXCEPT !.data = Zeros(Len(p.data)), !.rd = 0, !.wr = 0,
                  !.state = "Open"], "unit", -1)

\* a set_push() that does not look at the state
set_push_always(p, push) ==
    Out([p EXCEPT !.state = IF push THEN "Push" ELSE "Open"], "unit", -1)

\* PipeBuf::set_push
set_push(p, push) ==
    IF p.state \in {"Open", "Push"}
    THEN Out([p EXCEPT !.state = IF push THEN "Push" ELSE "Open"], "unit", -1)
    ELSE Out(p, "unit", -1)

(***************************************************************************)
(* PBufWr: producer operations                                             *)
(***************************************************************************)
\* <[T]>::copy_within(src_start..src_end, dest), offsets 0-based
copy_within(d, src_start, src_end, dest) ==
    [i \in 1..Len(d) |->
        IF i > dest /\ i <= dest + (src_end - src_start)
        THEN d[src_start + (i - dest)]
        ELSE d[i]]

\* the caller writes `values` at the start of the window data[wr..]
fill(p, values) ==
    [p EXCEPT !.data = [i \in 1..Len(p.data) |->
        IF i > p.wr /\ i <= p.wr + Len(values) THEN values[i - p.wr] ELSE @[i]]]

\* a compaction that moves the cursors but not the elements
compact_keep_data(p) ==
    IF p.rd > 0
    THEN [p EXCEPT !.wr = p.wr - p.rd, !.rd = 0]
    ELSE p

\* the first part of try_make_space: shift the unread region down to 0
compact(p) ==
    IF p.rd > 0
    THEN [p EXCEPT !.data = copy_within(p.data, p.rd, p.wr, 0),
                   !.wr = p.wr - p.rd, !.rd = 0]
    ELSE p

\* Vec::reserve(additional) then Vec::resize(capacity, T::default()):
\* the allocator may hand out up to `slack` more than was asked for
grow(p, req_len, slack) ==
    LET cap == IF p.vcap - Len(p.data) >= req_len - Len(p.data)
               THEN p.vcap
               ELSE req_len + slack
    IN [p EXCEPT !.data = p.data \o Zeros(cap - Len(p.data)),
                 !.vcap = cap,
                 !.max_capacity = Max(p.max_capacity, cap)]

\* a try_make_space that does not clamp the new length to max_capacity
try_make_space_unclamped(p, reserve, slack, dbg) ==
    IF dbg /\ ~(p.rd # p.wr \/ p.rd = 0)
    THEN [pb |-> p, ok |-> FALSE, panic |-> TRUE]
    ELSE LET q == compact(p) IN
         IF q.wr + reserve > Len(q.data)
         THEN IF Len(q.data) >= q.max_capacity
              THEN [pb |-> q, ok |-> FALSE, panic |-> FALSE]
              ELSE [pb |-> grow(q, Max(q.wr + reserve, reserve * 2), slack),
                    ok |-> TRUE, panic |-> FALSE]
         ELSE [pb |-> q, ok |-> TRUE, panic |-> FALSE]

\* PBufWr::try_make_space; `dbg` says whether debug_assert! is compiled in
try_make_space(p, reserve, slack, dbg) ==
    IF dbg /\ ~(p.rd # p.wr \/ p.rd = 0)
    THEN [pb |-> p, ok |-> FALSE, panic |-> TRUE]
    ELSE LET q == compact(p) IN
         IF q.wr + reserve > Len(q.data)
         THEN IF Len(q.data) >= q.max_capacity
              THEN [pb |-> q, ok |-> FALSE, panic |-> FALSE]
              ELSE LET req_len == Min(Max(q.wr + reserve, reserve * 2),
                                      q.max_capacity)
                   IN [pb |-> grow(q, req_len, slack), ok |-> TRUE,
                       panic |-> FALSE]
         ELSE [pb |-> q, ok |-> TRUE, panic |-> FALSE]

\* &mut data[wr..wr + n]: panics when the range ends beyond data.len()
slice(p, n) ==
    IF p.wr + n > Len(p.data) THEN Panic(p) ELSE Out(p, "some", n)

\* PBufWr::space
space(p, reserve, slack, dbg) ==
    IF p.wr + reserve > Len(p.data)
    THEN LET t == try_make_space(p, reserve, slack, dbg) IN
         IF t.panic THEN Panic(t.pb)
         ELSE IF ~t.ok THEN Out(t.pb, "none", -1)
         ELSE slice(t.pb, reserve)
    ELSE slice(p, reserve)

\* PBufWr::space_upto
space_upto(p, limit, slack, dbg) ==
    LET lim == Min(limit, free(p)) IN
    IF p.wr + lim > Len(p.data)
    THEN LET t == try_make_space(p, lim, slack, dbg) IN
         IF t.panic THEN Panic(t.pb) ELSE slice(t.pb, lim)
    ELSE slice(p, lim)

\* PBufWr::space_all
space_all(p, slack, dbg) ==
    LET reserve == free(p) IN
    IF p.wr + reserve > Len(p.data)
    THEN LET t == try_make_space(p, reserve, slack, dbg) IN
         IF t.panic THEN Panic(t.pb)
         ELSE Out(t.pb, "some", Len(t.pb.data) - t.pb.wr)
    ELSE Out(p, "some", Len(p.data) - p.wr)

\* a commit() without the check for EOF
commit_unchecked_eof(p, n) ==
    IF p.wr + n > Len(p.data)
    THEN Panic(p)
    ELSE Out([p EXCEPT !.wr = p.wr + n], "unit", -1)

\* a commit() without the check against the end of the storage
commit_unchecked_len(p, n) ==
    IF is_eof(p)
    THEN Panic(p)
    ELSE Out([p EXCEPT !.wr = p.wr + n], "unit", -1)

\* PBufWr::commit
commit(p, n) ==
    IF is_eof(p)
    THEN Panic(p)
    ELSE IF p.wr + n > Len(p.data)
         THEN Panic(p)
         ELSE Out([p EXCEPT !.wr = p.wr + n], "unit", -1)

\* PBufWr::push
push(p) ==
    IF p.state = "Open"
    THEN Out([p EXCEPT !.state = "Push"], "unit", -1)
    ELSE Out(p, "unit", -1)

\* PBufWr::append
append(p, values, slack, dbg) ==
    LET s == space(p, Len(values), slack, dbg) IN
    IF s.ret = "some"
    THEN LET c == commit(fill(s.pb, values), Len(values)) IN
         IF c.ret = "panic" THEN c ELSE Out(c.pb, "true", -1)
    ELSE IF s.ret = "panic" THEN s ELSE Out(s.pb, "false", -1)

\* a close() that takes effect after EOF too
close_overriding(p) == Out([p EXCEPT !.state = "Closing"], "true", -1)

\* PBufWr::close
close(p) ==
    IF is_eof(p)
    THEN Out(p, "false", -1)
    ELSE Out([p EXCEPT !.state = "Closing"], "true", -1)

\* an abort() that takes effect after EOF too
abort_overriding(p) == Out([p EXCEPT !.state = "Aborting"], "true", -1)

\* PBufWr::abort
abort(p) ==
    IF is_eof(p)
    THEN Out(p, "false", -1)
    ELSE Out([p EXCEPT !.state = "Aborting"], "true", -1)

\* PBufWr::write_with: the closure writes `values` at the start of the
\* window and returns Ok(cblen) (cbok) or Err(e)
write_with(p, limit, values, cbok, cblen, slack, dbg) ==
    LET s == space_upto(p, limit, slack, dbg) IN
    IF s.ret = "panic" THEN s
    ELSE LET w == fill(s.pb, SubSeq(values, 1, Min(Len(values), s.n))) IN
         IF ~cbok THEN Out(w, "err", -1)
         ELSE LET c == commit(w, cblen) IN
              IF c.ret = "panic" THEN c ELSE Out(c.pb, "ok", cblen)

\* PBufWr::write_with_noerr
write_with_noerr(p, limit, values, cblen, slack, dbg) ==
    LET s == space_upto(p, limit, slack, dbg) IN
    IF s.ret = "panic" THEN s
    ELSE LET w == fill(s.pb, SubSeq(values, 1, Min(Len(values), s.n)))
             c == commit(w, cblen)
         IN IF c.ret = "panic" THEN c ELSE Out(c.pb, "len", cblen)

\* impl Write for PipeBuf<u8>: write
write(p, values, slack, dbg) ==
    LET s == space_upto(p, Len(values), slack, dbg) IN
    IF s.ret = "panic" THEN s
    ELSE IF s.n > 0
         THEN LET c == commit(fill(s.pb, SubSeq(values, 1, s.n)), s.n) IN
              IF c.ret = "panic" THEN c ELSE Out(c.pb, "ok", s.n)
         ELSE Out(s.pb, "WouldBlock", -1)

\* impl Write for PipeBuf<u8>: flush
flush(p) == Out(push(p).pb, "ok", -1)

(***************************************************************************)
(* PBufRd: consumer operations                                             *)
(***************************************************************************)

\* a consume() without the check against the unread length
consume_unchecked(p, n) == Out([p EXCEPT !.rd = p.rd + n], "unit", -1)

\* PBufRd::consume
consume(p, n) ==
    LET rd == p.rd + n IN
    IF rd > p.wr
    THEN Panic(p)
    ELSE Out([p EXCEPT !.rd = rd], "unit", -1)

\* a consume_push() that reports a push in every state
consume_push_always(p) == Out([p EXCEPT !.state = "Open"], "true", -1)

\* PBufRd::consume_push
consume_push(p) ==
    IF p.state = "Push"
    THEN Out([p EXCEPT !.state = "Open"], "true", -1)
    ELSE Out(p, "false", -1)

\* a consume_eof() with the two arms exchanged
consume_eof_swapped(p) ==
    CASE p.state = "Closing" -> Out([p EXCEPT !.state = "Aborted"], "true", -1)
      [] p.state = "Aborting" -> Out([p EXCEPT !.state = "Closed"], "true", -1)
      [] OTHER -> Out(p, "false", -1)

\* PBufRd::consume_eof
consume_eof(p) ==
    CASE p.state = "Closing" -> Out([p EXCEPT !.state = "Closed"], "true", -1)
      [] p.state = "Aborting" -> Out([p EXCEPT !.state = "Aborted"], "true", -1)
      [] OTHER -> Out(p, "false", -1)

\* a read() that reports every consumed EOF as a successful end of file
read_ignoring_abort(p, dlen) ==
    IF ~is_empty(p)
    THEN LET n == Min(len(p), dlen) IN Out(consume(p, n).pb, "ok", n)
    ELSE LET c == consume_eof(p) IN
         IF c.ret = "true"
         THEN Out(c.pb, "ok", 0)
         ELSE Out(c.pb, "WouldBlock", -1)

\* a read() that reports a pending EOF before it delivers the unread data
read_eof_first(p, dlen) ==
    LET c == consume_eof(p) IN
    IF c.ret = "true"
    THEN IF is_aborted(c.pb)
         THEN Out(c.pb, "ConnectionAborted", -1)
         ELSE Out(c.pb, "ok", 0)
    ELSE IF ~is_empty(p)
         THEN LET n == Min(len(p), dlen) IN Out(consume(p, n).pb, "ok", n)
         ELSE Out(p, "WouldBlock", -1)

\* impl Read for PipeBuf<u8>: read into a destination of `dlen` bytes
read(p, dlen) ==
    IF ~is_empty(p)
    THEN LET n == Min(len(p), dlen) IN Out(consume(p, n).pb, "ok", n)
    ELSE LET c == consume_eof(p) IN
         IF c.ret = "true"
         THEN IF is_aborted(c.pb)
              THEN Out(c.pb, "ConnectionAborted", -1)
              ELSE Out(c.pb, "ok", 0)
         ELSE Out(c.pb, "WouldBlock", -1)

\* the outcome of a call on two engines: the source and the destination
\* afterwards and "unit" or "panic"
Fwd(s, d, r) == [src |-> s, dst |-> d, ret |-> r]

\* a forward() that consumes the unread region of the source before it
\* reserves the window in dest
transfer_consume_first(s, d, slack, dbg) ==
    LET n == len(s)
        k == consume(s, n)
        sp == space(d, n, slack, dbg)
    IN IF sp.ret # "some" THEN Fwd(k.pb, sp.pb, "panic")
       ELSE LET c == commit(fill(sp.pb, data(s)), n) IN
            IF c.ret = "panic" THEN Fwd(k.pb, c.pb, "panic")
            ELSE LET cp == consume_push(k.pb)
                     d1 == IF cp.ret = "true" THEN push(c.pb).pb ELSE c.pb
                     ce == consume_eof(cp.pb)
                     d2 == IF ce.ret = "true"
                           THEN IF is_aborted(ce.pb)
                                THEN abort(d1).pb
                                ELSE close(d1).pb
                           ELSE d1
                 IN Fwd(ce.pb, d2, "unit")

\* PBufRd::forward behind its test of dest.is_eof(): copy the unread
\* region into dest.space(len), commit it, consume it and pass on the
\* push and the EOF.  The window is used without a test for None: a
\* dest.space(len) that gives no window ends the call in a panic.
transfer(s, d, slack, dbg) ==
    LET n == len(s)
        sp == space(d, n, slack, dbg)
    IN IF sp.ret # "some" THEN Fwd(s, sp.pb, "panic")
       ELSE LET c == commit(fill(sp.pb, data(s)), n) IN
            IF c.ret = "panic" THEN Fwd(s, c.pb, "panic")
            ELSE LET k == consume(s, n) IN
                 IF k.ret = "panic" THEN Fwd(k.pb, c.pb, "panic")
                 ELSE LET cp == consume_push(k.pb)
                          d1 == IF cp.ret = "true" THEN push(c.pb).pb ELSE c.pb
                          ce == consume_eof(cp.pb)
                          d2 == IF ce.ret = "true"
                                THEN IF is_aborted(ce.pb)
                                     THEN abort(d1).pb
                                     ELSE close(d1).pb
                                ELSE d1
                      IN Fwd(ce.pb, d2, "unit")

\* a forward() that does not test dest.is_eof()
forward_ignoring_eof(s, d, slack, dbg) == transfer(s, d, slack, dbg)

\* PBufRd::forward
forward(s, d, slack, dbg) ==
    IF is_eof(d) THEN Fwd(s, d, "unit") ELSE transfer(s, d, slack, dbg)

(***************************************************************************)
(* Bookkeeping of the callers.  The producer of an engine writes the       *)
(* stream 1, 2, 3, ...: the element it commits as the i-th since the last  *)
(* reset has the value i.  ncommitted and nconsumed count the elements     *)
(* the callers have committed and consumed, first_eof is the EOF call that *)
(* returned true, and trip is a tripwire captured by a caller together     *)
(* with the kind of span of calls made since the capture.                  *)
(***************************************************************************)
NoTrip == [span |-> "none", t0 |-> 0, changed |-> FALSE]

\* the span after one more call of role `role` ("prod", "cons" or "glue")
\* that took the engine from p to q
TripStep(t, role, p, q) ==
    IF t.span = "none" THEN t
    ELSE [span |-> IF role # "glue" /\ t.span \in {"empty", role}
                   THEN role ELSE "mixed",
          t0 |-> t.t0,
          changed |-> t.changed \/ len(p) # len(q) \/ p.state # q.state]

\* the elements number m+1 .. m+n of the stream
Stream(m, n) == [i \in 1..n |-> m + i]

\* the n elements the producer of e writes next
Fresh(e, n) == Stream(ncommitted[e], n)

\* the producer of e may commit n more elements
CanCommit(e, n) == ncommitted[e] + n <= MaxCommitted

\* what the allocator may add to a request: only a storage that can still
\* grow is ever reallocated
Slacks(p) == IF Len(p.data) < p.max_capacity THEN 0..VecSlack ELSE {0}

\* a Writer call on e with outcome o that committed `put` elements
Produce(e, o, put) ==
    /\ CanCommit(e, put)
    /\ pb' = [pb EXCEPT ![e] = o.pb]
    /\ ncommitted' = [ncommitted EXCEPT ![e] = @ + put]
    /\ trip' = [trip EXCEPT ![e] = TripStep(@, "prod", pb[e], o.pb)]
    /\ UNCHANGED <<debug_assertions, panicked, nconsumed>>

\* a Reader call on e with outcome o that consumed `got` elements
Consume(e, o, got) ==
    /\ pb' = [pb EXCEPT ![e] = o.pb]
    /\ nconsumed' = [nconsumed EXCEPT ![e] = @ + got]
    /\ trip' = [trip EXCEPT ![e] = TripStep(@, "cons", pb[e], o.pb)]
    /\ UNCHANGED <<debug_assertions, panicked, ncommitted, first_eof>>

\* a call of the glue code on e with outcome o
Glue(e, o) ==
    /\ pb' = [pb EXCEPT ![e] = o.pb]
    /\ trip' = [trip EXCEPT ![e] = TripStep(@, "glue", pb[e], o.pb)]
    /\ UNCHANGED <<debug_assertions, panicked>>

(***************************************************************************)
(* The calls a caller can make on engine e in the current state, one set   *)
(* per method: each call is [o |-> outcome, n |-> number of elements the   *)
(* call committed (Writer) or consumed (Reader)].                          *)
(***************************************************************************)
Call(o, n) == [o |-> o, n |-> n]

\* the numbers of elements the producer of e may still write
WriteSizes(e) == {n \in Sizes : CanCommit(e, n)}

SpaceCalls(e) ==
    {Call(space(pb[e], n, slack, debug_assertions), 0) :
        n \in Sizes, slack \in Slacks(pb[e])}

SpaceUptoCalls(e) ==
    {Call(space_upto(pb[e], n, slack, debug_assertions), 0) :
        n \in Sizes, slack \in Slacks(pb[e])}

SpaceAllCalls(e) ==
    {Call(space_all(pb[e], slack, debug_assertions), 0) : slack \in Slacks(pb[e])}

\* commit(n) of n elements the caller wrote at the start of the window
\* data[wr..] (as many of them as the storage has room for)
CommitCalls(e) ==
    {LET w == fill(pb[e], Fresh(e, Min(n, Len(pb[e].data) - pb[e].wr)))
         o == commit(w, n)
     IN Call(o, IF o.ret = "panic" THEN 0 ELSE n) :
        n \in {m \in Sizes : CanCommit(e, Min(m, Len(pb[e].data) - pb[e].wr))}}

AppendCalls(e) ==
    {LET o == append(pb[e], Fresh(e, n), slack, debug_assertions)
     IN Call(o, IF o.ret = "true" THEN n ELSE 0) :
        n \in WriteSizes(e), slack \in Slacks(pb[e])}

\* what a closure does with the window it is given: it writes cblen
\* elements (as many of them as the window has room for) and returns
\* Ok(cblen), or it writes nothing and returns Err(e)
Closures(e) ==
    {[ok |-> TRUE, len |-> n] : n \in WriteSizes(e)} \cup {[ok |-> FALSE, len |-> 0]}

\* the closure reports more than its window holds, and the storage has
\* room behind the window: the call commits elements nobody wrote
CommitsUnwritten(e, limit, cblen, slack) ==
    LET s == space_upto(pb[e], limit, slack, debug_assertions) IN
    /\ s.ret = "some"
    /\ cblen > s.n
    /\ s.pb.wr + cblen <= Len(s.pb.data)

WriteWithCalls(e) ==
    {LET o == write_with(pb[e], a[1], Fresh(e, a[2].len), a[2].ok, a[2].len,
                         a[3], debug_assertions)
     IN Call(o, IF o.ret = "ok" THEN a[2].len ELSE 0) :
        a \in {x \in Sizes \X Closures(e) \X Slacks(pb[e]) :
                  ~CommitsUnwritten(e, x[1], x[2].len, x[3])}}

WriteWithNoerrCalls(e) ==
    {LET o == write_with_noerr(pb[e], a[1], Fresh(e, a[2]), a[2], a[3],
                               debug_assertions)
     IN Call(o, IF o.ret = "len" THEN a[2] ELSE 0) :
        a \in {x \in Sizes \X WriteSizes(e) \X Slacks(pb[e]) :
                  ~CommitsUnwritten(e, x[1], x[2], x[3])}}

WriteCalls(e) ==
    {LET o == write(pb[e], Fresh(e, n), slack, debug_assertions)
     IN Call(o, IF o.ret = "ok" THEN o.n ELSE 0) :
        n \in WriteSizes(e), slack \in Slacks(pb[e])}

FlushCalls(e) == {Call(flush(pb[e]), 0)}

PushCalls(e) == {Call(push(pb[e]), 0)}

CloseCalls(e) == {Call(close(pb[e]), 0)}

AbortCalls(e) == {Call(abort(pb[e]), 0)}

ConsumeCalls(e) ==
    {LET o == consume(pb[e], n)
     IN Call(o, IF o.ret = "panic" THEN 0 ELSE n) : n \in Sizes}

ConsumePushCalls(e) == {Call(consume_push(pb[e]), 0)}

ConsumeEofCalls(e) == {Call(consume_eof(pb[e]), 0)}

ReadCalls(e) ==
    {LET o == read(pb[e], dlen)
     IN Call(o, IF o.ret = "ok" THEN o.n ELSE 0) : dlen \in Sizes}

WriterCalls(e) ==
    SpaceCalls(e) \cup SpaceUptoCalls(e) \cup SpaceAllCalls(e) \cup CommitCalls(e)
    \cup AppendCalls(e) \cup WriteWithCalls(e) \cup WriteWithNoerrCalls(e)
    \cup WriteCalls(e) \cup FlushCalls(e) \cup PushCalls(e) \cup CloseCalls(e)
    \cup AbortCalls(e)

ReaderCalls(e) ==
    ConsumeCalls(e) \cup ConsumePushCalls(e) \cup ConsumeEofCalls(e) \cup ReadCalls(e)

(***************************************************************************)
(* Actions: one per method                                                 *)
(***************************************************************************)
WrSpace(e) ==
    \E c \in SpaceCalls(e) : Produce(e, c.o, c.n) /\ UNCHANGED first_eof

WrSpaceUpto(e) ==
    \E c \in SpaceUptoCalls(e) : Produce(e, c.o, c.n) /\ UNCHANGED first_eof

WrSpaceAll(e) ==
    \E c \in SpaceAllCalls(e) : Produce(e, c.o, c.n) /\ UNCHANGED first_eof

WrCommit(e) ==
    \E c \in CommitCalls(e) : Produce(e, c.o, c.n) /\ UNCHANGED first_eof

WrAppend(e) ==
    \E c \in AppendCalls(e) : Produce(e, c.o, c.n) /\ UNCHANGED first_eof

WrWriteWith(e) ==
    \E c \in WriteWithCalls(e) : Produce(e, c.o, c.n) /\ UNCHANGED first_eof

WrWriteWithNoerr(e) ==
    \E c \in WriteWithNoerrCalls(e) : Produce(e, c.o, c.n) /\ UNCHANGED first_eof

WrWrite(e) ==
    \E c \in WriteCalls(e) : Produce(e, c.o, c.n) /\ UNCHANGED first_eof

WrFlush(e) ==
    \E c \in FlushCalls(e) : Produce(e, c.o, c.n) /\ UNCHANGED first_eof

WrPush(e) ==
    \E c \in PushCalls(e) : Produce(e, c.o, c.n) /\ UNCHANGED first_eof

WrClose(e) ==
    \E c \in CloseCalls(e) :
        /\ Produce(e, c.o, c.n)
        /\ first_eof' = [first_eof EXCEPT ![e] =
                            IF c.o.ret = "true" THEN "close" ELSE @]

WrAbort(e) ==
    \E c \in AbortCalls(e) :
        /\ Produce(e, c.o, c.n)
        /\ first_eof' = [first_eof EXCEPT ![e] =
                            IF c.o.ret = "true" THEN "abort" ELSE @]

RdConsume(e) == \E c \in ConsumeCalls(e) : Consume(e, c.o, c.n)

RdConsumePush(e) == \E c \in ConsumePushCalls(e) : Consume(e, c.o, c.n)

RdConsumeEof(e) == \E c \in ConsumeEofCalls(e) : Consume(e, c.o, c.n)

RdRead(e) == \E c \in ReadCalls(e) : Consume(e, c.o, c.n)

\* the calls of forward from engine e into engine f
ForwardCalls(e, f) ==
    {forward(pb[e], pb[f], slack, debug_assertions) : slack \in Slacks(pb[f])}

\* rd(e).forward(wr(f)): a consumer call on e and a producer call on f
RdForward(e, f) ==
    \E o \in ForwardCalls(e, f) :
        LET moved == len(pb[e]) - len(o.src) IN
        /\ CanCommit(f, moved)
        /\ pb' = [pb EXCEPT ![e] = o.src, ![f] = o.dst]
        /\ nconsumed' = [nconsumed EXCEPT ![e] = @ + moved]
        /\ ncommitted' = [ncommitted EXCEPT ![f] = @ + moved]
        /\ first_eof' = [first_eof EXCEPT ![f] =
                            IF ~is_eof(pb[f]) /\ is_eof(o.dst)
                            THEN IF is_aborted(o.dst) THEN "abort" ELSE "close"
                            ELSE @]
        /\ trip' = [trip EXCEPT ![e] = TripStep(@, "cons", pb[e], o.src),
                                ![f] = TripStep(@, "prod", pb[f], o.dst)]
        /\ UNCHANGED <<debug_assertions, panicked>>

PbSetPush(e) ==
    \E b \in BOOLEAN :
        /\ Glue(e, set_push(pb[e], b))
        /\ UNCHANGED <<ncommitted, nconsumed, first_eof>>

PbReset(e) ==
    /\ Glue(e, reset(pb[e]))
    /\ ncommitted' = [ncommitted EXCEPT ![e] = 0]
    /\ nconsumed' = [nconsumed EXCEPT ![e] = 0]
    /\ first_eof' = [first_eof EXCEPT ![e] = "none"]

PbResetAndZero(e) ==
    /\ Glue(e, reset_and_zero(pb[e]))
    /\ ncommitted' = [ncommitted EXCEPT ![e] = 0]
    /\ nconsumed' = [nconsumed EXCEPT ![e] = 0]
    /\ first_eof' = [first_eof EXCEPT ![e] = "none"]

\* a caller captures pb.tripwire()
PbTripwire(e) ==
    /\ trip' = [trip EXCEPT ![e] =
                   [span |-> "empty", t0 |-> tripwire(pb[e]), changed |-> FALSE]]
    /\ UNCHANGED <<pb, debug_assertions, panicked, ncommitted, nconsumed, first_eof>>

(***************************************************************************)
(* The specification of one engine                                         *)
(***************************************************************************)
\* the engines are created growable from nothing (PipeBuf::new(0, MaxCap))
\* or fixed (PipeBuf::fixed(MaxCap)); vec! allocates exactly what it is
\* asked for
Init ==
    /\ \E min \in {0, MaxCap} :
           pb = [e \in Engines |-> new(min, MaxCap, 0)]
    /\ debug_assertions \in BOOLEAN
    /\ ncommitted = [e \in Engines |-> 0]
    /\ nconsumed = [e \in Engines |-> 0]
    /\ first_eof = [e \in Engines |-> "none"]
    /\ panicked = FALSE
    /\ trip = [e \in Engines |-> NoTrip]

WriterCall(e) ==
    \/ WrSpace(e)
    \/ WrSpaceUpto(e)
    \/ WrSpaceAll(e)
    \/ WrCommit(e)
    \/ WrAppend(e)
    \/ WrWriteWith(e)
    \/ WrWriteWithNoerr(e)
    \/ WrWrite(e)
    \/ WrFlush(e)
    \/ WrPush(e)
    \/ WrClose(e)
    \/ WrAbort(e)

ReaderCall(e) ==
    \/ RdConsume(e)
    \/ RdConsumePush(e)
    \/ RdConsumeEof(e)
    \/ RdRead(e)

GlueCall(e) ==
    \/ PbSetPush(e)
    \/ PbReset(e)
    \/ PbResetAndZero(e)

Next ==
    \/ WriterCall("down")
    \/ ReaderCall("down")
    \/ GlueCall("down")

Spec == Init /\ [][Next]_vars

\* the same engine with a caller that captures tripwires
NextTrip ==
    \/ Next
    \/ PbTripwire("down")

SpecTrip == Init /\ [][NextTrip]_vars

\* two engines in a chain: a producer and a consumer on "down", forward
\* from "down" into "up", and on "up" a consumer and a producer that
\* signals EOF
SourceCall ==
    \/ WrAppend("down")
    \/ WrPush("down")
    \/ WrClose("down")
    \/ WrAbort("down")
    \/ RdConsume("down")

DestCall ==
    \/ WrClose("up")
    \/ WrAbort("up")
    \/ RdConsume("up")
    \/ RdConsumePush("up")
    \/ RdConsumeEof("up")

NextForward ==
    \/ SourceCall
    \/ DestCall
    \/ RdForward("down", "up")

SpecForward == Init /\ [][NextForward]_vars

(***************************************************************************)
(* PipeBufPair: the engines "down" and "up" and the two ends of the pair   *)
(***************************************************************************)
\* an upper() that hands out what lower() hands out
upper_crossed == [rd |-> "down", wr |-> "up"]

\* PipeBufPair::upper: the reader of up and the writer of down
upper == [rd |-> "up", wr |-> "down"]

\* PipeBufPair::lower: the reader of down and the writer of up
lower == [rd |-> "down", wr |-> "up"]

\* PipeBufPair::left
left == upper

\* PipeBufPair::right
right == lower

\* the elements number m+1 .. m+n of the stream of one end of the pair:
\* the upper end writes 1, 2, 3, ..., the lower end -1, -2, -3, ...
SideStream(sign, m, n) == [i \in 1..n |-> sign * (m + i)]

\* h.wr.append(..) by the end h of the pair, which writes with `sign`
PairAppend(h, sign) ==
    \E n \in WriteSizes(h.wr) : \E slack \in Slacks(pb[h.wr]) :
        LET o == append(pb[h.wr], SideStream(sign, ncommitted[h.wr], n),
                        slack, debug_assertions)
        IN /\ Produce(h.wr, o, IF o.ret = "true" THEN n ELSE 0)
           /\ UNCHANGED first_eof

\* PipeBufPair::reset
PairReset ==
    /\ pb' = [e \in Engines |-> reset(pb[e]).pb]
    /\ ncommitted' = [e \in Engines |-> 0]
    /\ nconsumed' = [e \in Engines |-> 0]
    /\ first_eof' = [e \in Engines |-> "none"]
    /\ trip' = [e \in Engines |-> TripStep(trip[e], "glue", pb[e], reset(pb[e]).pb)]
    /\ UNCHANGED <<debug_assertions, panicked>>

\* PipeBufPair::reset_and_zero
PairResetAndZero ==
    /\ pb' = [e \in Engines |-> reset_and_zero(pb[e]).pb]
    /\ ncommitted' = [e \in Engines |-> 0]
    /\ nconsumed' = [e \in Engines |-> 0]
    /\ first_eof' = [e \in Engines |-> "none"]
    /\ trip' = [e \in Engines |->
                   TripStep(trip[e], "glue", pb[e], reset_and_zero(pb[e]).pb)]
    /\ UNCHANGED <<debug_assertions, panicked>>

\* the component at the upper (left) end: it writes and closes its
\* output and reads its input
UpperEnd ==
    \/ PairAppend(left, 1)
    \/ WrClose(upper.wr)
    \/ RdConsume(upper.rd)

\* the component at the lower (right) end: it writes and aborts its
\* output and reads its input
LowerEnd ==
    \/ PairAppend(right, -1)
    \/ WrAbort(lower.wr)
    \/ RdConsume(lower.rd)

NextPair ==
    \/ UpperEnd
    \/ LowerEnd
    \/ PairReset
    \/ PairResetAndZero

SpecPair == Init /\ [][NextPair]_vars

(***************************************************************************)
(* The std::io adapters: PBufWr::input_from / input_from_upto and          *)
(* PBufRd::output_to.  A source (impl Read) or sink (impl Write) is the    *)
(* sequence of answers Ok(n) or Err(Interrupted) it gives to the calls     *)
(* made on it, in order; when the sequence is used up it answers with the  *)
(* error WouldBlock, which ends the call of the adapter.  An outcome of an *)
(* adapter is [pb, ret, n, calls]: the engine afterwards, "ok", the kind   *)
(* of the error returned or "panic", the number of bytes moved, and the    *)
(* calls made on the source or sink.                                       *)
(***************************************************************************)
Ok(n) == [kind |-> "ok", n |-> n]

Err(kind) == [kind |-> kind, n |-> 0]

\* the lengths a source or sink answers: nothing, one byte, many bytes
IoSizes == {0, 1, MaxCap}

Answers == {Ok(n) : n \in IoSizes} \cup {Err("Interrupted")}

Scripts == UNION {[1..k -> Answers] : k \in 0..MaxIo}

\* the answer to the i-th call
answer(script, i) == IF i <= Len(script) THEN script[i] ELSE Err("WouldBlock")

IoOut(p, r, n, calls) == [pb |-> p, ret |-> r, n |-> n, calls |-> calls]

\* usize::MAX within the arithmetic of the model
usize_MAX == UsizeModulus - 1

\* the while loop of input_from_upto.  source.read(buf) of a source that
\* answers Ok(n) fills min(n, buf.len()) bytes of the window and returns
\* that number; the source yields the bytes m+1, m+2, ... of the stream
RECURSIVE input_loop(_, _, _, _, _, _, _, _)
input_loop(p, source, limit, m, total, calls, slack, dbg) ==
    IF ~(total < limit /\ ~is_full(p))
    THEN IoOut(p, "ok", total, calls)
    ELSE LET w == space_upto(p, limit - total, slack, dbg)
             a == answer(source, Len(calls) + 1)
             got == Min(a.n, w.n)
             called == Append(calls, [kind |-> a.kind, n |-> got, win |-> w.n])
             o == write_with(p, limit - total, Stream(m + total, got),
                             a.kind = "ok", got, slack, dbg)
         IN CASE w.ret = "panic" -> IoOut(w.pb, "panic", total, calls)
              [] o.ret = "panic" -> IoOut(o.pb, "panic", total, called)
              [] o.ret = "err" /\ a.kind = "Interrupted" ->
                    input_loop(o.pb, source, limit, m, total, called, slack, dbg)
              [] o.ret = "err" -> IoOut(o.pb, a.kind, total, called)
              [] o.n = 0 -> IoOut(close(o.pb).pb, "ok", total, called)
              [] OTHER ->
                    input_loop(o.pb, source, limit, m, total + o.n, called, slack, dbg)

\* an input_from_upto() that does not test is_eof() first
input_from_upto_after_eof(p, source, limit, m, slack, dbg) ==
    input_loop(p, source, limit, m, 0, <<>>, slack, dbg)

\* PBufWr::input_from_upto
input_from_upto(p, source, limit, m, slack, dbg) ==
    IF is_eof(p)
    THEN IoOut(p, "ok", 0, <<>>)
    ELSE input_loop(p, source, limit, m, 0, <<>>, slack, dbg)

\* PBufWr::input_from
input_from(p, source, m, slack, dbg) ==
    input_from_upto(p, source, usize_MAX, m, slack, dbg)

\* the flush loop of output_to
RECURSIVE flush_loop(_, _, _, _)
flush_loop(p, sink, total, calls) ==
    LET a == answer(sink, Len(calls) + 1)
        called == Append(calls, [call |-> "flush", kind |-> a.kind, n |-> 0])
    IN CASE a.kind = "Interrupted" -> flush_loop(p, sink, total, called)
         [] a.kind # "ok" -> IoOut(p, a.kind, total, called)
         [] OTHER -> IoOut(p, "ok", total, called)

\* output_to behind its write loop
output_flush(p, sink, force_flush, total, calls) ==
    LET c == consume_push(p) IN
    IF c.ret = "true" \/ force_flush
    THEN flush_loop(c.pb, sink, total, calls)
    ELSE IoOut(c.pb, "ok", total, calls)

\* the write loop of output_to and what follows it
RECURSIVE output_loop(_, _, _, _, _)
output_loop(p, sink, force_flush, total, calls) ==
    IF is_empty(p)
    THEN output_flush(p, sink, force_flush, total, calls)
    ELSE LET a == answer(sink, Len(calls) + 1)
             called == Append(calls, [call |-> "write", kind |-> a.kind, n |-> a.n])
         IN CASE a.kind = "Interrupted" ->
                    output_loop(p, sink, force_flush, total, called)
              [] a.kind # "ok" -> IoOut(p, a.kind, total, called)
              [] a.n = 0 -> output_flush(p, sink, force_flush, total, called)
              [] a.n > len(p) -> IoOut(p, "panic", total, called)
              [] OTHER ->
                    output_loop(consume(p, a.n).pb, sink, force_flush,
                                total + a.n, called)

\* PBufRd::output_to
output_to(p, sink, force_flush) == output_loop(p, sink, force_flush, 0, <<>>)

\* the limits tried by the callers of input_from_upto
InputLimits == Sizes \cup {usize_MAX}

\* the calls of input_from_upto on engine e that the producer of e may make
InputFromUptoCalls(e) ==
    {input_from_upto(pb[e], source, limit, ncommitted[e], slack, debug_assertions) :
        source \in Scripts, limit \in Sizes, slack \in Slacks(pb[e])}

InputFromCalls(e) ==
    {input_from(pb[e], source, ncommitted[e], slack, debug_assertions) :
        source \in Scripts, slack \in Slacks(pb[e])}

OutputToCalls(e) ==
    {output_to(pb[e], sink, force_flush) : sink \in Scripts, force_flush \in BOOLEAN}

\* a call of an input adapter on e with outcome o
Input(e, o) ==
    /\ Produce(e, o, o.n)
    /\ first_eof' = [first_eof EXCEPT ![e] =
                        IF ~is_eof(pb[e]) /\ is_eof(o.pb) THEN "close" ELSE @]

WrInputFromUpto(e) == \E o \in InputFromUptoCalls(e) : Input(e, o)

WrInputFrom(e) == \E o \in InputFromCalls(e) : Input(e, o)

RdOutputTo(e) == \E o \in OutputToCalls(e) : Consume(e, o, o.n)

\* one engine between a byte source and a byte sink: the producer inputs
\* from the source, pushes and aborts, the consumer outputs to the sink
\* and consumes the EOF
NextIo ==
    \/ WrInputFrom("down")
    \/ WrInputFromUpto("down")
    \/ WrPush("down")
    \/ WrAbort("down")
    \/ RdOutputTo("down")
    \/ RdConsumeEof("down")

SpecIo == Init /\ [][NextIo]_vars

\* one engine whose only callers are a producer, a consumer and a caller
\* that captures tripwires: a span is "mixed" here only when both the
\* producer and the consumer made calls in it
NextSpan ==
    \/ WrAppend("down")
    \/ WrPush("down")
    \/ WrClose("down")
    \/ RdConsume("down")
    \/ RdConsumePush("down")
    \/ RdConsumeEof("down")
    \/ PbTripwire("down")

SpecSpan == Init /\ [][NextSpan]_vars

\* the engine under test
P == pb["down"]

(***************************************************************************)
(* A producer and a consumer that run to the end of the stream.  The       *)
(* producer appends only what free() has room for and closes or aborts     *)
(* the stream; the consumer consumes unread data and a pending EOF.  No    *)
(* component catches a panic: a call that panics ends the program.         *)
(***************************************************************************)
\* the appends the cooperative producer of e makes: of 1 .. free() elements
FittingAppends(e) ==
    {LET o == append(pb[e], Fresh(e, n), slack, debug_assertions)
     IN Call(o, IF o.ret = "true" THEN n ELSE 0) :
        n \in {m \in WriteSizes(e) : 1 <= m /\ m <= free(pb[e])},
        slack \in Slacks(pb[e])}

LiveAppend ==
    /\ ~panicked /\ ~is_eof(P)
    /\ \E c \in FittingAppends("down") :
          /\ c.o.ret # "panic"
          /\ Produce("down", c.o, c.n)
          /\ UNCHANGED first_eof

\* an append of the producer panics
LivePanic ==
    /\ ~panicked /\ ~is_eof(P)
    /\ \E c \in FittingAppends("down") : c.o.ret = "panic"
    /\ panicked' = TRUE
    /\ UNCHANGED <<pb, debug_assertions, ncommitted, nconsumed, first_eof, trip>>

LiveClose == ~panicked /\ ~is_eof(P) /\ WrClose("down")

LiveAbort == ~panicked /\ ~is_eof(P) /\ WrAbort("down")

LiveConsume ==
    /\ ~panicked /\ ~is_empty(P)
    /\ \E n \in 1..len(P) : Consume("down", consume(P, n), n)

LiveConsumeEof == ~panicked /\ has_pending_eof(P) /\ RdConsumeEof("down")

ProducerStep == LiveAppend \/ LivePanic \/ LiveClose \/ LiveAbort

ConsumerStep == LiveConsume \/ LiveConsumeEof

NextLive ==
    \/ LiveAppend
    \/ LivePanic
    \/ LiveClose
    \/ LiveAbort
    \/ LiveConsume
    \/ LiveConsumeEof

\* the consumer is scheduled fairly, and the producer does not put off
\* its close() or abort() for ever
SpecLive ==
    /\ Init
    /\ [][NextLive]_vars
    /\ WF_vars(LiveConsume)
    /\ WF_vars(LiveConsumeEof)
    /\ WF_vars(LiveClose \/ LiveAbort)

(***************************************************************************)
(* The claims                                                              *)
(***************************************************************************)

\* the unread length or the state differs between p and q
Changed(p, q) == len(p) # len(q) \/ p.state # q.state

\* C1: after any sequence of operations rd <= wr, and whenever the unread
\* region is empty (rd = wr) both offsets are 0
CursorsResetWhenEmpty ==
    /\ P.rd <= P.wr
    /\ P.rd = P.wr => P.rd = 0 /\ P.wr = 0

\* C2: the elements consumed so far followed by the unread region data()
\* are the elements committed so far, in order: with the producer writing
\* the stream 1, 2, 3, ... and nconsumed elements consumed, data() is the
\* stream from nconsumed + 1 to ncommitted
StreamPreserved ==
    data(P) = Stream(nconsumed["down"], ncommitted["down"] - nconsumed["down"])

\* C2 witness: more elements were committed than the engine can hold, one
\* was consumed and two are unread: the storage was compacted around an
\* unread element
StreamCompacted ==
    /\ StreamPreserved
    /\ ncommitted["down"] > P.max_capacity
    /\ nconsumed["down"] > 0
    /\ len(P) >= 2

\* C3: over a span of producer calls only, or of consumer calls only, the
\* tripwire captured before the span differs from the tripwire after it
\* (is_tripped) exactly when a call of the span changed the unread length
\* or the state
TripwireDetectsChange ==
    trip["down"].span \in {"empty", "prod", "cons"} =>
        (is_tripped(P, trip["down"].t0) <=> trip["down"].changed)

\* C3 witness: a span of consumer calls that changed the engine and
\* tripped the wire, ending in a consumed EOF
TrippedByConsumer ==
    /\ trip["down"].span = "cons"
    /\ trip["down"].changed
    /\ is_tripped(P, trip["down"].t0)
    /\ P.state = "Closed"
    /\ nconsumed["down"] > 0

\* the producer operations and the consumer operations C4 names
NamedProducerCalls(e) ==
    AppendCalls(e) \cup PushCalls(e) \cup CloseCalls(e) \cup AbortCalls(e)

NamedConsumerCalls(e) ==
    ConsumeCalls(e) \cup ConsumePushCalls(e) \cup ConsumeEofCalls(e)

\* C4 as claimed: every producer call (append, push, close, abort) that
\* returns strictly increases the tripwire and every consumer call
\* (consume, consume_push, consume_eof) that returns strictly decreases it
EveryCallMovesTripwire ==
    /\ \A c \in NamedProducerCalls("down") :
          c.o.ret # "panic" => tripwire(c.o.pb) > tripwire(P)
    /\ \A c \in NamedConsumerCalls("down") :
          c.o.ret # "panic" => tripwire(c.o.pb) < tripwire(P)

\* C4 as amended: a producer call never decreases the tripwire and a
\* consumer call never increases it, and a call leaves the tripwire equal
\* exactly when it changes neither the unread length nor the state
TripwireMonotone ==
    /\ \A c \in NamedProducerCalls("down") :
          /\ tripwire(c.o.pb) >= tripwire(P)
          /\ tripwire(c.o.pb) = tripwire(P) <=> ~Changed(P, c.o.pb)
    /\ \A c \in NamedConsumerCalls("down") :
          /\ tripwire(c.o.pb) <= tripwire(P)
          /\ tripwire(c.o.pb) = tripwire(P) <=> ~Changed(P, c.o.pb)

\* C4 witness: after a close() that took effect, with unread data: a
\* second close() leaves the tripwire equal, consume_eof() and consume(1)
\* decrease it
SecondCloseKeepsTripwire ==
    /\ first_eof["down"] = "close"
    /\ P.state = "Closing"
    /\ len(P) > 0
    /\ tripwire(close(P).pb) = tripwire(P)
    /\ tripwire(consume_eof(P).pb) < tripwire(P)
    /\ tripwire(consume(P, 1).pb) < tripwire(P)

\* C5: every Writer call that changes the unread length or the state
\* strictly increases the tripwire, every Reader call that changes them
\* strictly decreases it, and the ordinals of the states satisfy
\* Open < Push < Closing, Push < Aborting, Closed < Closing and
\* Aborted < Aborting
ChangeMovesTripwire ==
    /\ \A c \in WriterCalls("down") :
          Changed(P, c.o.pb) => tripwire(c.o.pb) > tripwire(P)
    /\ \A c \in ReaderCalls("down") :
          Changed(P, c.o.pb) => tripwire(c.o.pb) < tripwire(P)
    /\ as_usize("Open") < as_usize("Push")
    /\ as_usize("Push") < as_usize("Closing")
    /\ as_usize("Push") < as_usize("Aborting")
    /\ as_usize("Closed") < as_usize("Closing")
    /\ as_usize("Aborted") < as_usize("Aborting")

\* C5 witness: a pushed engine with unread data behind consumed data, on
\* which an append of one element, a close(), a consume(1) and a
\* consume_push() all change the engine
PushedWithData ==
    /\ P.state = "Push"
    /\ nconsumed["down"] > 0
    /\ len(P) > 0
    /\ \E c \in AppendCalls("down") : c.n = 1 /\ Changed(P, c.o.pb)
    /\ Changed(P, close(P).pb)
    /\ Changed(P, consume(P, 1).pb)
    /\ Changed(P, consume_push(P).pb)

\* C6: Writer and Reader calls change the state only along Open->Push
\* (push, flush), Push->Open (consume_push), Open/Push->Closing (close),
\* Open/Push->Aborting (abort), Closing->Closed and Aborting->Aborted
\* (consume_eof, read); every other call leaves the state alone, and no
\* call changes the state Closed or Aborted
StateTransitions ==
    /\ \A c \in PushCalls("down") \cup FlushCalls("down") :
          c.o.pb.state # P.state => P.state = "Open" /\ c.o.pb.state = "Push"
    /\ \A c \in ConsumePushCalls("down") :
          c.o.pb.state # P.state => P.state = "Push" /\ c.o.pb.state = "Open"
    /\ \A c \in CloseCalls("down") :
          c.o.pb.state # P.state =>
              P.state \in {"Open", "Push"} /\ c.o.pb.state = "Closing"
    /\ \A c \in AbortCalls("down") :
          c.o.pb.state # P.state =>
              P.state \in {"Open", "Push"} /\ c.o.pb.state = "Aborting"
    /\ \A c \in ConsumeEofCalls("down") \cup ReadCalls("down") :
          c.o.pb.state # P.state =>
              \/ P.state = "Closing" /\ c.o.pb.state = "Closed"
              \/ P.state = "Aborting" /\ c.o.pb.state = "Aborted"
    /\ \A c \in SpaceCalls("down") \cup SpaceUptoCalls("down")
                \cup SpaceAllCalls("down") \cup CommitCalls("down")
                \cup AppendCalls("down") \cup WriteWithCalls("down")
                \cup WriteWithNoerrCalls("down") \cup WriteCalls("down")
                \cup ConsumeCalls("down") :
          c.o.pb.state = P.state
    /\ P.state \in {"Closed", "Aborted"} =>
          \A c \in WriterCalls("down") \cup ReaderCalls("down") :
              c.o.pb.state = P.state

\* C6 witness: the engine went Open -> Closing -> Closed with data
\* committed, and is in the terminal state Closed
ReachedClosed ==
    /\ P.state = "Closed"
    /\ first_eof["down"] = "close"
    /\ ncommitted["down"] > 0

IsDoneExact ==
    /\ is_done(P) <=>
          \/ P.state = "Aborted"
          \/ P.state = "Closed" /\ data(P) = <<>>
    /\ P.state = "Closed" /\ ncommitted["down"] > nconsumed["down"] =>
          is_eof(P) /\ ~is_done(P)
    /\ P.state = "Aborting" => is_done(consume_eof(P).pb)

\* C8 witness: a close() with unread data was followed by consume_eof():
\* the engine is at EOF and not done
ClosedWithUnreadData ==
    /\ P.state = "Closed"
    /\ first_eof["down"] = "close"
    /\ len(P) > 0
    /\ is_eof(P)
    /\ ~is_done(P)

\* C9: consume_push() returns true exactly when the state is Push, and
\* then sets it to Open; consume_eof() returns true exactly when the state
\* is Closing or Aborting, and then sets it to Closed or Aborted; a call
\* that returns false changes nothing, and the call after one that
\* returned true returns false
ConsumePushEofExact ==
    /\ \A c \in ConsumePushCalls("down") :
          /\ c.o.ret = "true" <=> P.state = "Push"
          /\ c.o.ret = "true" =>
                /\ c.o.pb = [P EXCEPT !.state = "Open"]
                /\ consume_push(c.o.pb).ret = "false"
          /\ c.o.ret = "false" => c.o.pb = P
    /\ \A c \in ConsumeEofCalls("down") :
          /\ c.o.ret = "true" <=> P.state \in {"Closing", "Aborting"}
          /\ c.o.ret = "true" =>
                /\ c.o.pb = [P EXCEPT !.state =
                                IF P.state = "Closing" THEN "Closed" ELSE "Aborted"]
                /\ consume_eof(c.o.pb).ret = "false"
          /\ c.o.ret = "false" => c.o.pb = P

\* C9 witness: a push() is pending on unread data: consume_push() returns
\* true once and false after it, and consume_eof() returns false
PushPending ==
    /\ P.state = "Push"
    /\ len(P) > 0
    /\ consume_push(P).ret = "true"
    /\ consume_push(consume_push(P).pb).ret = "false"
    /\ consume_eof(P).ret = "false"

\* C10: commit(n) after EOF (Closing, Closed, Aborting, Aborted) panics
\* for every n and leaves wr, rd and the state unchanged, and no call of
\* commit, append, write_with, write_with_noerr or write adds data to an
\* engine on which EOF was signaled
CommitAfterEofFatal ==
    is_eof(P) =>
        /\ \A n \in Sizes : commit(P, n).ret = "panic" /\ commit(P, n).pb = P
        /\ \A c \in CommitCalls("down") \cup AppendCalls("down")
                    \cup WriteWithCalls("down") \cup WriteWithNoerrCalls("down")
                    \cup WriteCalls("down") :
              data(c.o.pb) = data(P) /\ c.o.pb.state = P.state

\* C10 witness: EOF was signaled on an engine with unread data and room
\* for one more element, and commit(1) panics
CommitRefusedWithRoom ==
    /\ P.state = "Closing"
    /\ len(P) > 0
    /\ P.wr + 1 <= Len(P.data)
    /\ commit(P, 1).ret = "panic"

\* the calls of space, space_upto and space_all that returned a window
WindowCalls(e) ==
    {c \in SpaceCalls(e) \cup SpaceUptoCalls(e) \cup SpaceAllCalls(e) :
        c.o.ret = "some"}

\* C11 as claimed: commit(n) right after a space, space_upto or space_all
\* call that returned a window of fewer than n elements panics and
\* leaves wr unchanged
CommitBeyondWindowFatal ==
    \A c \in WindowCalls("down") : \A n \in Sizes :
        n > c.o.n =>
            /\ commit(c.o.pb, n).ret = "panic"
            /\ commit(c.o.pb, n).pb.wr = c.o.pb.wr

\* C11 as amended: commit(n) right after a space, space_upto or
\* space_all call panics and leaves the engine unchanged whenever
\* wr + n exceeds the length of the storage, so wr is never advanced past
\* the end of the storage; a commit(n) before EOF that ends within the
\* storage advances wr by n, also when n exceeds the window returned
StorageBoundsCommit ==
    /\ P.wr <= Len(P.data)
    /\ \A c \in WindowCalls("down") : \A n \in Sizes :
          LET q == c.o.pb
              o == commit(q, n)
          IN /\ q.wr + n > Len(q.data) => o.ret = "panic" /\ o.pb = q
             /\ q.wr + n <= Len(q.data) /\ ~is_eof(q) =>
                   o.ret = "unit" /\ o.pb = [q EXCEPT !.wr = q.wr + n]
             /\ o.pb.wr <= Len(o.pb.data)

\* C11 witness: after data was consumed, space_upto(1) returns a window
\* of one element in front of two elements of storage: commit(2) is
\* accepted and commit(3) panics
CommitPastWindowAccepted ==
    /\ nconsumed["down"] > 0
    /\ \E c \in WindowCalls("down") :
          /\ c.o.n = 1
          /\ commit(c.o.pb, 2).ret = "unit"
          /\ commit(c.o.pb, 2).pb.wr = c.o.pb.wr + 2
          /\ commit(c.o.pb, 3).ret = "panic"

\* C12: consume(n) with n greater than the unread length panics and
\* leaves rd, wr and the state (the whole engine) unchanged; consume(n)
\* with n at most the unread length removes the first n unread elements
\* and leaves the remaining unread elements and the state unchanged
ConsumeExact ==
    \A n \in Sizes :
        LET o == consume(P, n) IN
        /\ n > len(P) => o.ret = "panic" /\ o.pb = P
        /\ n <= len(P) =>
              /\ o.ret = "unit"
              /\ data(o.pb) = SubSeq(data(P), n + 1, len(P))
              /\ len(o.pb) = len(P) - n
              /\ o.pb.state = P.state
              /\ o.pb.wr = P.wr

\* C12 witness: two elements are unread behind a consumed one:
\* consume(1) leaves the second, consume(3) panics
ConsumeFromTwo ==
    /\ nconsumed["down"] > 0
    /\ len(P) = 2
    /\ data(consume(P, 1).pb) = <<data(P)[2]>>
    /\ consume(P, 3).ret = "panic"

\* C13: space(n) returns None, without panicking, whenever n exceeds
\* free(), on fixed engines and on growable engines, grown to their
\* maximum or not, also when n exceeds the maximum capacity
SpaceNoneWhenShort ==
    \A n \in Sizes : \A slack \in Slacks(P) :
        n > free(P) => space(P, n, slack, debug_assertions).ret = "none"

\* the length try_make_space asks for when the engine p, compacted, has
\* no room for `reserve` elements
ReqLen(p, reserve) ==
    Min(Max(compact(p).wr + reserve, reserve * 2), p.max_capacity)

\* the calls that reserve nothing
NonReservingCalls(e) ==
    CommitCalls(e) \cup PushCalls(e) \cup FlushCalls(e) \cup CloseCalls(e)
    \cup AbortCalls(e) \cup ReaderCalls(e)

\* C14 as claimed: the storage is never longer than capacity() and never
\* gets shorter, it grows only in a reserve call whose request does not
\* fit after compaction, and the new length is max(wr + n, 2n) clamped
\* to the maximum capacity
GrowthExact ==
    /\ Len(P.data) <= capacity(P)
    /\ \A c \in WriterCalls("down") \cup ReaderCalls("down") :
          Len(c.o.pb.data) >= Len(P.data)
    /\ \A c \in NonReservingCalls("down") : Len(c.o.pb.data) = Len(P.data)
    /\ \A n \in Sizes : \A slack \in Slacks(P) :
          LET o == space(P, n, slack, debug_assertions) IN
          Len(o.pb.data) > Len(P.data) =>
              /\ compact(P).wr + n > Len(P.data)
              /\ Len(o.pb.data) = ReqLen(P, n)

\* C14 as amended: the storage is never longer than capacity() and never
\* gets shorter (nor does capacity()), calls that reserve nothing and
\* resets leave its length alone, and it grows only in a reserve call
\* whose request does not fit after compaction while the storage is
\* shorter than the maximum capacity; the new length is at least
\* max(wr + n, 2n) clamped to the maximum capacity, exactly that when the
\* allocator hands out what was asked for, and capacity() afterwards is
\* the larger of the old capacity() and the new length
StorageGrowth ==
    /\ Len(P.data) <= capacity(P)
    /\ \A c \in WriterCalls("down") \cup ReaderCalls("down") :
          /\ Len(c.o.pb.data) >= Len(P.data)
          /\ capacity(c.o.pb) >= capacity(P)
    /\ \A c \in NonReservingCalls("down") : Len(c.o.pb.data) = Len(P.data)
    /\ Len(reset(P).pb.data) = Len(P.data)
    /\ Len(reset_and_zero(P).pb.data) = Len(P.data)
    /\ \A n \in Sizes : \A slack \in Slacks(P) :
          \A o \in {space(P, n, slack, debug_assertions),
                    space_upto(P, n, slack, debug_assertions)} :
              LET req == IF o = space(P, n, slack, debug_assertions)
                         THEN n ELSE Min(n, free(P))
              IN Len(o.pb.data) > Len(P.data) =>
                    /\ compact(P).wr + req > Len(P.data)
                    /\ Len(P.data) < P.max_capacity
                    /\ Len(o.pb.data) >= ReqLen(P, req)
                    /\ slack = 0 => Len(o.pb.data) = ReqLen(P, req)
                    /\ capacity(o.pb) = Max(capacity(P), Len(o.pb.data))

\* C14 witness: a growable engine whose storage the allocator made longer
\* than the maximum capacity asked for, with data consumed and unread
GrownPastMaximum ==
    /\ Len(P.data) = MaxCap + 1
    /\ capacity(P) = Len(P.data)
    /\ nconsumed["down"] > 0
    /\ len(P) > 0

\* C15: whenever n <= free() and the state is Open or Push, space(n)
\* returns a window of exactly n elements and append of n elements
\* returns true, wherever rd and wr are in the storage
SpaceFitsWhenFree ==
    P.state \in {"Open", "Push"} =>
        \A n \in Sizes : \A slack \in Slacks(P) :
            n <= free(P) =>
                /\ space(P, n, slack, debug_assertions).ret = "some"
                /\ space(P, n, slack, debug_assertions).n = n
                /\ CanCommit("down", n) =>
                      LET o == append(P, Fresh("down", n), slack, debug_assertions)
                      IN o.ret = "true" /\ data(o.pb) = data(P) \o Fresh("down", n)

\* C16: append(data) is all-or-nothing: when the slice fits (and no EOF
\* was signaled) it commits the slice after the unread data and returns
\* true; when it does not fit it returns false, without panicking, and
\* leaves the unread data, the state and the tripwire unchanged, on fixed
\* and on growable engines, also for slices longer than the maximum
\* capacity
AppendAllOrNothing ==
    \A n \in WriteSizes("down") : \A slack \in Slacks(P) :
        LET o == append(P, Fresh("down", n), slack, debug_assertions) IN
        /\ n <= free(P) /\ ~is_eof(P) =>
              o.ret = "true" /\ data(o.pb) = data(P) \o Fresh("down", n)
        /\ n > free(P) =>
              /\ o.ret = "false"
              /\ data(o.pb) = data(P)
              /\ o.pb.state = P.state
              /\ tripwire(o.pb) = tripwire(P)

\* C17: space_upto(limit) never panics and returns a window of exactly
\* min(limit, free()) elements, space_all() returns a window of exactly
\* free() elements (free() as it is after the call), and both leave the
\* unread data and the state unchanged
SpaceUptoExact ==
    \A slack \in Slacks(P) :
        /\ \A limit \in Sizes :
              LET o == space_upto(P, limit, slack, debug_assertions) IN
              /\ o.ret = "some"
              /\ o.n = Min(limit, free(P))
              /\ data(o.pb) = data(P)
              /\ o.pb.state = P.state
        /\ LET o == space_all(P, slack, debug_assertions) IN
              /\ o.ret = "some"
              /\ o.n = free(o.pb)
              /\ data(o.pb) = data(P)
              /\ o.pb.state = P.state

\* C18: write_with(limit, cb) hands cb a window of min(limit, free())
\* elements; when cb wrote len elements into the window and returns
\* Ok(len) (and no EOF was signaled) it commits exactly these len
\* elements and returns Ok(len); when cb returns Err(e) it commits
\* nothing, leaves the unread data and the state unchanged and returns
\* Err(e); write_with_noerr commits and returns the length cb reports
WriteWithExact ==
    \A limit \in Sizes : \A slack \in Slacks(P) :
        /\ space_upto(P, limit, slack, debug_assertions).n = Min(limit, free(P))
        /\ LET o == write_with(P, limit, <<>>, FALSE, 0, slack, debug_assertions)
           IN o.ret = "err" /\ data(o.pb) = data(P) /\ o.pb.state = P.state
        /\ ~is_eof(P) =>
              \A n \in {m \in WriteSizes("down") : m <= Min(limit, free(P))} :
                  LET o == write_with(P, limit, Fresh("down", n), TRUE, n,
                                      slack, debug_assertions)
                      u == write_with_noerr(P, limit, Fresh("down", n), n,
                                            slack, debug_assertions)
                  IN /\ o.ret = "ok" /\ o.n = n
                     /\ data(o.pb) = data(P) \o Fresh("down", n)
                     /\ u.ret = "len" /\ u.n = n
                     /\ data(u.pb) = data(P) \o Fresh("down", n)

\* the state of a source in state t after forward() passed on its push
\* or EOF
Passed(t) ==
    CASE t = "Push" -> "Open"
      [] t = "Closing" -> "Closed"
      [] t = "Aborting" -> "Aborted"
      [] OTHER -> t

\* the state of a destination in state u (Open or Push) after forward()
\* from a source in state t
Received(t, u) ==
    CASE t = "Push" -> "Push"
      [] t = "Closing" -> "Closing"
      [] t = "Aborting" -> "Aborting"
      [] OTHER -> u

\* C19: forward(dest), when dest has not signaled EOF and has room for
\* the unread region of the source, returns with dest holding its unread
\* data followed by the source's, the source empty, a source in Push,
\* Closing or Aborting now Open, Closed or Aborted, and dest in Push,
\* Closing or Aborting accordingly
ForwardTransfers ==
    LET s == pb["down"]
        d == pb["up"]
    IN ~is_eof(d) /\ len(s) <= free(d) =>
          \A o \in ForwardCalls("down", "up") :
              /\ o.ret = "unit"
              /\ data(o.dst) = data(d) \o data(s)
              /\ len(o.src) = 0
              /\ o.src.state = Passed(s.state)
              /\ o.dst.state = Received(s.state, d.state)

\* C20: forward(dest) with dest in Closing, Closed, Aborting or Aborted
\* returns without a panic and leaves the source and the destination as
\* they were
ForwardNoopAfterEof ==
    is_eof(pb["up"]) =>
        \A o \in ForwardCalls("down", "up") :
            o.ret = "unit" /\ o.src = pb["down"] /\ o.dst = pb["up"]

\* C20 witness: the destination, which holds forwarded data, signaled
\* EOF, and the source has unread data and a pending EOF to pass on
ForwardRefused ==
    /\ is_eof(pb["up"])
    /\ len(pb["up"]) > 0
    /\ nconsumed["down"] > 0
    /\ len(pb["down"]) > 0
    /\ has_pending_eof(pb["down"])
    /\ \A o \in ForwardCalls("down", "up") : o.src = pb["down"]

\* C21: set_push(b) sets the state to Push (b true) or Open (b false)
\* when the state is Open or Push and changes nothing else; in Closing,
\* Closed, Aborting and Aborted it changes nothing, so a signaled EOF
\* stays signaled whatever the glue code does with set_push
SetPushKeepsEof ==
    /\ \A b \in BOOLEAN :
          LET o == set_push(P, b) IN
          /\ o.ret = "unit"
          /\ ~is_eof(P) =>
                o.pb = [P EXCEPT !.state = IF b THEN "Push" ELSE "Open"]
          /\ is_eof(P) => o.pb = P
    /\ first_eof["down"] # "none" => is_eof(P)

\* C21 witness: an abort() took effect on an engine with unread data, and
\* set_push(true) and set_push(false) leave the state Aborting
SetPushOnAborting ==
    /\ first_eof["down"] = "abort"
    /\ P.state = "Aborting"
    /\ len(P) > 0
    /\ set_push(P, TRUE).pb.state = "Aborting"
    /\ set_push(P, FALSE).pb.state = "Aborting"

\* C22: reset(), in any reachable state, leaves the engine Open with
\* rd = wr = 0, nothing unread, the capacity and the storage unchanged,
\* so that consume_push() and consume_eof() return false and is_done()
\* is false; reset_and_zero() does the same and sets every element of
\* the storage to the default value, so that the window of the next
\* reserve call holds zeros only
ResetToOpen ==
    LET r == reset(P).pb
        z == reset_and_zero(P).pb
    IN /\ \A q \in {r, z} :
             /\ q.state = "Open" /\ q.rd = 0 /\ q.wr = 0
             /\ data(q) = <<>>
             /\ capacity(q) = capacity(P)
             /\ Len(q.data) = Len(P.data)
             /\ consume_push(q).ret = "false"
             /\ consume_eof(q).ret = "false"
             /\ ~is_done(q)
       /\ r.data = P.data
       /\ z.data = Zeros(Len(P.data))
       /\ \A slack \in Slacks(z) :
             LET o == space_all(z, slack, debug_assertions) IN
             /\ o.ret = "some"
             /\ SubSeq(o.pb.data, o.pb.wr + 1, o.pb.wr + o.n) = Zeros(o.n)

\* C22 witness: an aborted engine whose EOF was consumed, with a consumed
\* element in front of unread data: reset() makes it Open and empty
ResetOfAborted ==
    /\ P.state = "Aborted"
    /\ P.rd > 0
    /\ len(P) > 0
    /\ is_done(P)
    /\ reset(P).pb.state = "Open"
    /\ len(reset(P).pb) = 0

\* what the reader of engine e sees is the stream written with `sign`,
\* from the element after the last one consumed to the last one committed
Carries(e, sign) ==
    data(pb[e]) = SideStream(sign, nconsumed[e], ncommitted[e] - nconsumed[e])

\* down carries what the upper end wrote and its close(), up carries what
\* the lower end wrote and its abort(); the lower end reads the former
\* and the upper end the latter
PairDirections ==
    /\ Carries("down", 1)
    /\ Carries("up", -1)
    /\ Carries(lower.rd, 1)
    /\ Carries(upper.rd, -1)
    /\ is_eof(pb[lower.rd]) => ~is_aborted(pb[lower.rd])
    /\ is_eof(pb[upper.rd]) => is_aborted(pb[upper.rd])
    /\ is_eof(pb["down"]) <=> first_eof["down"] = "close"
    /\ is_eof(pb["up"]) <=> first_eof["up"] = "abort"
    /\ left = upper /\ right = lower

\* a step that changes both directions resets both
PairFrame ==
    pb'["down"] # pb["down"] /\ pb'["up"] # pb["up"] =>
        \A e \in Engines :
            pb'[e].state = "Open" /\ pb'[e].rd = 0 /\ pb'[e].wr = 0

\* C23: in a PipeBufPair what is written and signaled through upper().wr
\* (left) is seen through lower().rd (right) only, and what is written
\* through lower().wr through upper().rd only; a call on one direction
\* leaves the other direction unchanged, and reset and reset_and_zero
\* reset both directions
PairSeparation == [][PairFrame /\ PairDirections']_vars

\* C23 witness: both directions hold data of their own writer behind
\* data that was read, down with a close() pending and up with an abort()
\* pending
PairBothWays ==
    /\ PairDirections
    /\ len(pb["down"]) > 0
    /\ len(pb["up"]) > 0
    /\ pb["down"].state = "Closing"
    /\ pb["up"].state = "Aborting"
    /\ nconsumed["up"] > 0
    /\ nconsumed["down"] > 0


\* C24 as stated: read returns Ok(0) if and only if the EOF was signaled by
\* close() and all unread data has been read, ConnectionAborted only for
\* an abort EOF, and WouldBlock only when no data is available and no EOF
\* has been signaled
ReadOkZeroIffEof ==
    \A dlen \in Sizes :
        LET o == read(P, dlen) IN
        /\ (o.ret = "ok" /\ o.n = 0) <=> (first_eof["down"] = "close" /\ is_empty(P))
        /\ o.ret = "ConnectionAborted" => first_eof["down"] = "abort"
        /\ o.ret = "WouldBlock" => is_empty(P) /\ first_eof["down"] = "none"

\* C24 (amended): read decides by the unread data first and by the state
\* second.  With unread data it returns Ok(min(len, destination length)),
\* which is Ok(0) for an empty destination, and consumes that many
\* elements; on an empty buffer it returns Ok(0) exactly in Closing (which
\* it turns into Closed), ConnectionAborted exactly in Aborting (which it
\* turns into Aborted), and WouldBlock without changing anything in Open,
\* Push, Closed and Aborted, so each EOF is reported once
ReadByState ==
    \A dlen \in Sizes :
        LET o == read(P, dlen) IN
        /\ ~is_empty(P) =>
              /\ o.ret = "ok" /\ o.n = Min(len(P), dlen)
              /\ data(o.pb) = SubSeq(data(P), o.n + 1, len(P))
              /\ o.pb.state = P.state
        /\ is_empty(P) /\ P.state = "Closing" =>
              /\ o.ret = "ok" /\ o.n = 0
              /\ o.pb = [P EXCEPT !.state = "Closed"]
        /\ is_empty(P) /\ P.state = "Aborting" =>
              /\ o.ret = "ConnectionAborted"
              /\ o.pb = [P EXCEPT !.state = "Aborted"]
        /\ is_empty(P) /\ P.state \in {"Open", "Push", "Closed", "Aborted"} =>
              /\ o.ret = "WouldBlock"
              /\ o.pb = P

\* C24 witness: all data was read and the EOF of close() was reported, and
\* the next read returns WouldBlock
ReadAfterReportedEof ==
    /\ P.state = "Closed" /\ is_empty(P)
    /\ first_eof["down"] = "close"
    /\ nconsumed["down"] > 0
    /\ read(P, 1).ret = "WouldBlock"


\* C25: write(data) on an engine without EOF either copies and commits
\* len = min(data.len(), free()) > 0 elements and returns Ok(len), or, when
\* that minimum is 0, commits nothing and returns WouldBlock; it never
\* panics, never returns Ok(0) and never commits more than free(); flush()
\* leaves the engine as push() does
WriteExact ==
    /\ flush(P).ret = "ok" /\ flush(P).pb = push(P).pb
    /\ ~is_eof(P) =>
          \A n \in WriteSizes("down") : \A slack \in Slacks(P) :
              LET o == write(P, Fresh("down", n), slack, debug_assertions)
                  k == Min(n, free(P))
              IN /\ o.ret \in {"ok", "WouldBlock"}
                 /\ o.ret = "ok" <=> k > 0
                 /\ o.ret = "ok" =>
                       /\ o.n = k
                       /\ data(o.pb) = data(P) \o SubSeq(Fresh("down", n), 1, k)
                 /\ o.ret = "WouldBlock" => data(o.pb) = data(P)
                 /\ o.pb.state = P.state


\* C26: input_from / input_from_upto on an engine with EOF returns Ok(())
\* without calling the source and without changing anything.  Otherwise
\* it calls the source with non-empty windows only, sets Closing exactly
\* when a read of the source returned Ok(0), reads again after every
\* Interrupted, ends with the first other error and returns it, and
\* whatever it returns the bytes read before are committed behind the
\* unread data.  (A call that ends in the debug assertion of
\* try_make_space does so before its first read of the source.)
InputFromExact ==
    \A source \in Scripts : \A limit \in InputLimits : \A slack \in Slacks(P) :
        LET o == input_from_upto(P, source, limit, ncommitted["down"], slack,
                                 debug_assertions)
            reads == o.calls
            eofs == {i \in DOMAIN reads : reads[i].kind = "ok" /\ reads[i].n = 0}
            errors == {i \in DOMAIN reads : reads[i].kind \notin {"ok", "Interrupted"}}
        IN /\ limit = usize_MAX =>
                 o = input_from(P, source, ncommitted["down"], slack,
                                debug_assertions)
           /\ is_eof(P) => o.ret = "ok" /\ o.pb = P /\ reads = <<>>
           /\ ~is_eof(P) =>
                 /\ \A i \in DOMAIN reads : reads[i].win > 0
                 /\ o.pb.state = "Closing" <=> eofs # {}
                 /\ eofs # {} => o.ret = "ok" /\ eofs = {Len(reads)}
                 /\ o.pb.state # "Closing" => o.pb.state = P.state
                 /\ \A i \in DOMAIN reads :
                        reads[i].kind = "Interrupted" => i < Len(reads)
                 /\ \A i \in errors : i = Len(reads) /\ o.ret = reads[i].kind
                 /\ o.ret \notin {"ok", "panic"} => errors # {}
                 /\ o.n <= limit
                 /\ data(o.pb) = data(P) \o Stream(ncommitted["down"], o.n)

\* C26 witness: the source gave data and then Ok(0), the engine is Closing
\* with these bytes unread, and a source with data is not called
InputClosedBySource ==
    /\ P.state = "Closing" /\ len(P) > 0
    /\ first_eof["down"] = "close"
    /\ input_from(P, <<Ok(1)>>, ncommitted["down"], 0, debug_assertions).calls = <<>>

\* C27 as stated: output_to(sink, false) calls sink.flush() only if the
\* buffer has been emptied, and when unread data remains after the call
\* a pending push remains pending
OutputFlushOnlyWhenEmptied ==
    \A sink \in Scripts :
        LET o == output_to(P, sink, FALSE) IN
        /\ (\E i \in DOMAIN o.calls : o.calls[i].call = "flush") => is_empty(o.pb)
        /\ P.state = "Push" /\ ~is_empty(o.pb) => o.pb.state = "Push"


\* the states in which EOF has been signaled
EofStates == {"Closing", "Closed", "Aborting", "Aborted"}

\* s is what is left of t after consuming some of its elements
IsSuffix(s, t) == \E k \in 0..Len(t) : s = SubSeq(t, k + 1, Len(t))

\* C28: once EOF has been signaled the unread data is final.  Every step
\* of a producer, consumer or glue call from a state with EOF is a reset,
\* or leaves the engine with EOF and with unread data that is a suffix
\* of the unread data before, so that its length does not increase
EofDataFinal ==
    [][P.state \in EofStates =>
          \/ /\ P'.state \in EofStates
             /\ IsSuffix(data(P'), data(P))
          \/ P' \in {reset(P).pb, reset_and_zero(P).pb}]_vars

\* C28 witness: EOF was signaled by close() and consumed, part of the
\* data was read, some is still unread, and the storage has room behind it
EofDataPartlyRead ==
    /\ P.state = "Closed"
    /\ first_eof["down"] = "close"
    /\ nconsumed["down"] > 0
    /\ len(P) > 0
    /\ P.wr < Len(P.data)


MakeSpaceCalls(p) ==
    {reserve \in Sizes \cup {Min(n, free(p)) : n \in Sizes} \cup {free(p)} :
        p.wr + reserve > Len(p.data)}

\* C30 as stated: in every reachable state, every call of try_make_space
\* that space, space_upto, space_all, append, write_with or forward can
\* make finds its debug assertion rd != wr || rd == 0 true
TryMakeSpaceAssertion ==
    \A reserve \in MakeSpaceCalls(P) : P.rd # P.wr \/ P.rd = 0


\* C31: in every reachable state rd <= wr, wr is at most the storage
\* length and the unread length wr - rd is at most capacity(), so the
\* subtractions of free() do not underflow, free() is between 0 and
\* capacity(), and is_full() is true exactly when the unread length
\* equals capacity()
FreeNeverUnderflows ==
    /\ P.rd <= P.wr
    /\ P.wr <= Len(P.data)
    /\ len(P) <= capacity(P)
    /\ free(P) \in 0..capacity(P)
    /\ is_full(P) <=> len(P) = capacity(P)

\* C31 witness: a full engine, filled again after the consumer had read
\* part of the stream
FullAfterConsume ==
    /\ is_full(P)
    /\ len(P) > 0
    /\ nconsumed["down"] > 0
    /\ free(P) = 0


\* C32: the tripwire can be back at its starting value although the
\* engine changed, and only after a span that mixes producer and consumer
\* calls: whenever a call of the span changed the unread length or the
\* state and is_tripped reports false, the span is mixed and the unread
\* length plus the value of the state add up to the captured tripwire
MixedSpanCoincidence ==
    LET t == trip["down"] IN
    t.span # "none" /\ t.changed /\ ~is_tripped(P, t.t0) =>
        /\ t.span = "mixed"
        /\ wrapping_add(len(P), as_usize(P.state)) = t.t0

\* C32 witness: the tripwire was captured on the empty Open engine, the
\* producer appended elements and the consumer consumed them all, and
\* is_tripped reports false
MixedSpanUntripped ==
    /\ trip["down"].span = "mixed"
    /\ trip["down"].changed
    /\ trip["down"].t0 = 0
    /\ ~is_tripped(P, trip["down"].t0)
    /\ P.state = "Open" /\ is_empty(P)
    /\ P.rd > 0



\* C33: through read the data committed before an EOF is delivered before
\* the EOF is reported, for both kinds of EOF.  While unread data remains
\* read leaves the state as it is and, for a non-empty destination,
\* returns Ok(len) with len > 0 and delivers the oldest len unread
\* elements; read changes the state only on an empty engine, when every
\* committed element has been consumed, from Closing to Closed with Ok(0)
\* or from Aborting to Aborted with ConnectionAborted
ReadDeliversBeforeEof ==
    \A dlen \in Sizes :
        LET o == read(P, dlen) IN
        /\ ~is_empty(P) =>
              /\ o.pb.state = P.state
              /\ dlen > 0 => o.ret = "ok" /\ o.n > 0
              /\ data(P) = SubSeq(data(P), 1, o.n) \o data(o.pb)
        /\ o.pb.state # P.state =>
              /\ is_empty(P)
              /\ nconsumed["down"] = ncommitted["down"]
              /\ \/ /\ P.state = "Closing" /\ o.pb.state = "Closed"
                    /\ o.ret = "ok" /\ o.n = 0
                 \/ /\ P.state = "Aborting" /\ o.pb.state = "Aborted"
                    /\ o.ret = "ConnectionAborted"
        /\ o.ret = "ConnectionAborted" \/ (o.ret = "ok" /\ o.n = 0 /\ dlen > 0) =>
              o.pb.state # P.state

\* C33 witness: abort() was signaled with data unread, part of it has
\* been read, and read delivers the last element in Aborting before the
\* next read reports ConnectionAborted
AbortReportedAfterData ==
    /\ P.state = "Aborting" /\ len(P) = 1
    /\ nconsumed["down"] > 0
    /\ read(P, 1).ret = "ok" /\ read(P, 1).pb.state = "Aborting"
    /\ read(read(P, 1).pb, 1).ret = "ConnectionAborted"


\* s is the start of t
IsPrefix(s, t) == Len(s) <= Len(t) /\ s = SubSeq(t, 1, Len(s))

\* the state after a producer call: unchanged, or moved by push, close or
\* abort
ProducerMove(s, t) ==
    \/ t = s
    \/ s = "Open" /\ t = "Push"
    \/ s \in {"Open", "Push"} /\ t \in {"Closing", "Aborting"}

\* the state after a consumer call: unchanged, or moved by consume_push or
\* consume_eof
ConsumerMove(s, t) ==
    \/ t = s
    \/ s = "Push" /\ t = "Open"
    \/ s = "Closing" /\ t = "Closed"
    \/ s = "Aborting" /\ t = "Aborted"

\* q is p after a Writer call: the unread data of p is the start of the
\* unread data of q and the state made a producer move
WriterFrame(p, q) ==
    IsPrefix(data(p), data(q)) /\ ProducerMove(p.state, q.state)

\* q is p after a Reader call: the unread data of q is the end of the
\* unread data of p and the state made a consumer move
ReaderFrame(p, q) ==
    IsSuffix(data(q), data(p)) /\ ConsumerMove(p.state, q.state)

\* engines with one unread element, in each state a producer can leave
\* them in: the sources of a forward() into the engine under test
ForwardSources ==
    LET s == append(new(MaxCap, MaxCap, 0), <<0>>, 0, FALSE).pb IN
    {s, push(s).pb, close(s).pb, abort(s).pb}

\* C34: every Writer call (space, space_upto, space_all, commit, append,
\* write_with, write_with_noerr, write, flush, push, close, abort, and
\* forward on its destination) leaves the unread data it found as the
\* start of the unread data, also when it compacts or grows the storage,
\* and moves the state only as a producer does; every Reader call
\* (consume, consume_push, consume_eof, read, and forward on its source)
\* leaves an end of the unread data it found and moves the state only as
\* a consumer does
CapabilityFrames ==
    /\ \A c \in WriterCalls("down") : WriterFrame(P, c.o.pb)
    /\ \A c \in ReaderCalls("down") : ReaderFrame(P, c.o.pb)
    /\ \A o \in ForwardCalls("down", "up") : ReaderFrame(P, o.src)
    /\ \A s \in ForwardSources : \A slack \in Slacks(P) :
          LET o == forward(s, P, slack, debug_assertions) IN
          WriterFrame(P, o.dst) /\ ReaderFrame(s, o.src)

\* C34 witness: the producer finds unread data behind consumed elements,
\* and an append as well as a forward into the engine compact the storage
\* to add to the unread data
FramesWithCompaction ==
    /\ P.rd > 0 /\ len(P) > 0
    /\ \E c \in AppendCalls("down") :
          c.o.ret = "true" /\ c.n > 0 /\ c.o.pb.rd = 0
    /\ \E s \in ForwardSources :
          LET o == forward(s, P, 0, debug_assertions) IN
          o.ret = "unit" /\ o.dst.rd = 0 /\ len(o.dst) > len(P)


\* C35: once is_done() is true it stays true under every Writer call and
\* Reader call, the adapters and forward included (a call that panics
\* leaves the engine as it was), and under set_push; reset and
\* reset_and_zero make it false again
DoneIsFinal ==
    is_done(P) =>
        /\ \A c \in WriterCalls("down") \cup ReaderCalls("down") : is_done(c.o.pb)
        /\ \A o \in InputFromCalls("down") \cup InputFromUptoCalls("down")
                    \cup OutputToCalls("down") : is_done(o.pb)
        /\ \A o \in ForwardCalls("down", "up") : is_done(o.src)
        /\ \A s \in ForwardSources : \A slack \in Slacks(P) :
              is_done(forward(s, P, slack, debug_assertions).dst)
        /\ \A b \in BOOLEAN : is_done(set_push(P, b).pb)
        /\ ~is_done(reset(P).pb)
        /\ ~is_done(reset_and_zero(P).pb)

\* C35 witness: an aborted engine whose EOF was consumed with data
\* unread is done, and stays done when the consumer consumes an element
DoneWithUnreadData ==
    /\ P.state = "Aborted" /\ is_done(P)
    /\ len(P) > 0
    /\ consume(P, 1).ret = "unit"
    /\ is_done(consume(P, 1).pb)


\* C36 as stated: a forward(dest) into a dest without EOF that lacks free
\* space for the unread data of the source fails and leaves the unread
\* data and the state of both engines unchanged, and in every outcome
\* the elements missing from the source have been committed to dest
ForwardFailsWhenShort ==
    LET s == pb["down"]
        d == pb["up"]
    IN \A o \in ForwardCalls("down", "up") :
          /\ data(o.dst) \o data(o.src) = data(d) \o data(s)
          /\ ~is_eof(d) /\ len(s) > free(d) =>
                /\ o.ret = "panic"
                /\ data(o.src) = data(s) /\ o.src.state = s.state
                /\ data(o.dst) = data(d) /\ o.dst.state = d.state


\* C36 (amended): forward(dest) never loses data.  In every outcome the
\* unread data of dest followed by that of the source is what it was
\* before, and a forward that panics leaves the unread data and the state
\* of both engines unchanged.  When dest (without EOF) lacks free space
\* for the unread data of the source the call panics, unless dest is
\* still growing and the allocator rounds its storage up so far that the
\* data fits: then capacity() of dest is raised and everything is
\* forwarded
ForwardNeverLoses ==
    LET s == pb["down"]
        d == pb["up"]
    IN \A o \in ForwardCalls("down", "up") :
          /\ data(o.dst) \o data(o.src) = data(d) \o data(s)
          /\ o.ret = "panic" =>
                /\ data(o.src) = data(s) /\ o.src.state = s.state
                /\ data(o.dst) = data(d) /\ o.dst.state = d.state
          /\ ~is_eof(d) /\ len(s) > free(d) =>
                \/ o.ret = "panic"
                \/ /\ o.ret = "unit"
                   /\ Len(d.data) < d.max_capacity
                   /\ capacity(o.dst) > capacity(d)
                   /\ len(o.src) = 0
                   /\ data(o.dst) = data(d) \o data(s)

\* C36 witness: dest holds unread data, has not signaled EOF and lacks
\* room for the unread data of the source, and forward panics with both
\* engines unchanged
ForwardShortOfSpace ==
    /\ ~is_eof(pb["up"]) /\ len(pb["up"]) > 0
    /\ len(pb["down"]) > free(pb["up"])
    /\ \E o \in ForwardCalls("down", "up") :
          o.ret = "panic" /\ o.src = pb["down"] /\ data(o.dst) = data(pb["up"])


\* C37 as stated: when output_to returns an error, of the sink's write or
\* of the sink's flush, a push that was pending when the call started is
\* still pending afterwards
OutputErrorKeepsPush ==
    \A o \in OutputToCalls("down") :
        P.state = "Push" /\ o.ret \notin {"ok", "panic"} => o.pb.state = "Push"


\* C38 as stated: with the cooperative producer and the fairly scheduled
\* consumer, in every state in which the engine is not done the producer
\* or the consumer has an enabled operation, and the engine eventually
\* reaches is_done()
RunsToDone ==
    /\ [](~is_done(P) => ENABLED (ProducerStep \/ ConsumerStep))
    /\ <>is_done(P)

====
